---- MODULE Spec2Model ----
(***************************************************************************)
(* Model of the scout execution host (src/src/main.rs): the shard state    *)
(* transition process_shard_block, execute_code, and the host functions    *)
(* the guest module calls through Runtime::invoke_index.                   *)
(*                                                                         *)
(* A Rust panic (unwrap / expect / index out of bounds / unimplemented!)   *)
(* unwinds out of process_shard_block: the host stops (host = "panicked")  *)
(* and the ShardState keeps whatever was written before the panic.         *)
(*                                                                         *)
(* Sizes are scaled: a digest is DigestLen bytes (32 in the source), a     *)
(* page of guest memory is PageSize bytes (65536 in wasmi), a byte is 0/1. *)
(* History variables record what a caller observes of the last call.      *)
(***************************************************************************)
EXTENDS Integers, Sequences, FiniteSets, TLC

\* ---------------------------------------------------------------- bounds
DigestLen == 1
PageSize == 2
MaxEnv == 1
MaxLen == 3
MaxData == 2
MaxGuestSteps == 2

Byte == {0, 1}
Envs == 0..MaxEnv
InitLens == {0, 1}

\* ------------------------------------------------------ data structures
Digest == [1..DigestLen -> Byte]
ZERO_HASH == [i \in 1..DigestLen |-> 0]
ShardBlockHeader == <<>>
Deposit == "Deposit"
BlockBodies == UNION {[1..n -> Byte] : n \in 0..MaxData}
Pointers == 0..PageSize
Sizes == 0..MaxData

\* Indices of the host functions in Runtime::invoke_index.
LOADPRESTATE_FUNC_INDEX == 0
BLOCKDATASIZE_FUNC_INDEX == 1
BLOCKDATACOPY_FUNC_INDEX == 2
SAVEPOSTSTATE_FUNC_INDEX == 3
PUSHNEWDEPOSIT_FUNC_INDEX == 4
KnownIndices ==
    {LOADPRESTATE_FUNC_INDEX, BLOCKDATASIZE_FUNC_INDEX,
     BLOCKDATACOPY_FUNC_INDEX, SAVEPOSTSTATE_FUNC_INDEX,
     PUSHNEWDEPOSIT_FUNC_INDEX}

\* The names resolve_func knows, and one it does not.
HostFunctionNames ==
    {"eth2_loadPreState", "eth2_blockDataSize", "eth2_blockDataCopy",
     "eth2_savePostState", "eth2_pushNewDeposit"}
OtherFunctionName == "eth2_other"

\* A module as the loader sees it: what wasmi reports when the bytecode is
\* decoded, linked against the resolver, and asked for its exports.
Module(dec, imp, st, mem, mn) ==
    [decodes |-> dec, imports |-> imp, start |-> st, memory_export |-> mem,
     main_export |-> mn, pages |-> 1, data |-> <<>>]
Modules ==
    { Module(TRUE, "known", FALSE, "memory", TRUE),
      Module(FALSE, "known", FALSE, "memory", TRUE),
      Module(TRUE, "unknown", FALSE, "memory", TRUE),
      Module(TRUE, "known", TRUE, "memory", TRUE),
      Module(TRUE, "known", FALSE, "other", TRUE),
      Module(TRUE, "known", FALSE, "none", TRUE),
      Module(TRUE, "known", FALSE, "memory", FALSE) }

\* The same, and a module whose exported memory has two pages.
ModulesAnySize ==
    Modules \cup
    {[Module(TRUE, "known", FALSE, "memory", TRUE) EXCEPT !.pages = 2]}
PointersAnySize == 0..(2 * PageSize)

\* The same, and a module with a data segment that initialises its memory.
ModulesWithData ==
    Modules \cup
    {[Module(TRUE, "known", FALSE, "memory", TRUE) EXCEPT !.data = <<1>>]}

\* The function names module m imports from "env".
ImportNames(m) ==
    IF m.imports = "known" THEN HostFunctionNames
    ELSE HostFunctionNames \cup {OtherFunctionName}

VARIABLES
    exec_env_states, slot, parent_block,    \* ShardState
    host,                                   \* "running" | "panicked"
    pc,                                     \* "idle" | "main"
    env,                                    \* block.env of the block being run
    memory, pre_state, block_data, post_state,   \* Runtime
    instance,                               \* the module instance being run
    memory_binding, \* history: whose memory the Runtime held before and
                    \* after execute_code bound the module's memory
    steps,                                  \* guest steps taken in this run
    entry,          \* history: ShardState on entry to the last call
    outcome,        \* history: how the last call ended
    result,         \* history: value returned by the last execute_code
    committed,      \* history: env -> post state of its last successful run
    referenced,     \* history: envs of the blocks handed to the transition
    record_calls,   \* whether last_call and run are recorded (fixed by Init)
    last_call,      \* history: the last step of the guest, with its arguments
    run             \* history: what the guest of the last run has done

state_vars == <<exec_env_states, slot, parent_block>>
runtime_vars == <<memory, pre_state, block_data, post_state>>
call_vars == <<record_calls, last_call>>
vars == <<exec_env_states, slot, parent_block, host, pc, env, memory,
          pre_state, block_data, post_state, steps, entry, outcome, result,
          committed, referenced, record_calls, last_call, instance,
          memory_binding, run>>

ShardState ==
    [exec_env_states |-> exec_env_states, slot |-> slot,
     parent_block |-> parent_block]

Outcome(k, c) == [kind |-> k, cause |-> c]
NoResult == <<>>
NoCall == <<>>
NoInstance == [funcs |-> {}, pages |-> 0]
NoBinding == [before |-> "none", after |-> "none"]
Call(name, args) == IF record_calls THEN <<name>> \o args ELSE NoCall

\* saves: the bytes guest memory held at src_ptr at each eth2_savePostState
\* that returned; round_trip: the last two steps were eth2_loadPreState(p)
\* and then eth2_savePostState(p).
NoRun == [saves |-> <<>>, round_trip |-> FALSE]

\* ------------------------------------------------------- pure functions
\* Faulty variant: the loop runs over 0..=env.
FillHoles_Inclusive(states, e) == states \o [i \in 1..(e + 1) |-> ZERO_HASH]

\* for x in 0..env { state.exec_env_states.push(ZERO_HASH) }
FillHoles(states, e) == states \o [i \in 1..e |-> ZERO_HASH]

\* Faulty variant: reads the last entry instead of entry env.
PreStateOf_Last(states, e) == states[Len(states)]

\* &state.exec_env_states[env]
PreStateOf(states, e) == states[e + 1]

\* Faulty variant: writes the last entry instead of entry env.
StorePostState_Last(states, e, post) == [states EXCEPT ![Len(states)] = post]

\* state.exec_env_states[env] = post_state
StorePostState(states, e, post) == [states EXCEPT ![e + 1] = post]

\* Faulty variant: a name the host does not know gets a host function too.
ResolveFunc_AnyName(field_name) ==
    CASE field_name = "eth2_loadPreState" -> {LOADPRESTATE_FUNC_INDEX}
      [] field_name = "eth2_blockDataSize" -> {BLOCKDATASIZE_FUNC_INDEX}
      [] field_name = "eth2_blockDataCopy" -> {BLOCKDATACOPY_FUNC_INDEX}
      [] field_name = "eth2_savePostState" -> {SAVEPOSTSTATE_FUNC_INDEX}
      [] field_name = "eth2_pushNewDeposit" -> {PUSHNEWDEPOSIT_FUNC_INDEX}
      [] OTHER -> {PUSHNEWDEPOSIT_FUNC_INDEX + 1}

\* RuntimeModuleImportResolver::resolve_func: {index} for Ok(host function
\* with that index), {} for Err.
ResolveFunc(field_name) ==
    CASE field_name = "eth2_loadPreState" -> {LOADPRESTATE_FUNC_INDEX}
      [] field_name = "eth2_blockDataSize" -> {BLOCKDATASIZE_FUNC_INDEX}
      [] field_name = "eth2_blockDataCopy" -> {BLOCKDATACOPY_FUNC_INDEX}
      [] field_name = "eth2_savePostState" -> {SAVEPOSTSTATE_FUNC_INDEX}
      [] field_name = "eth2_pushNewDeposit" -> {PUSHNEWDEPOSIT_FUNC_INDEX}
      [] OTHER -> {}

\* The host function indices the instance of m can invoke.
LinkedFuncs(m) == UNION {ResolveFunc(nm) : nm \in ImportNames(m)}

\* The first step of execute_code that fails for module m, in code order.
LoadFault(m) ==
    IF ~m.decodes THEN "ModuleDecode"
    ELSE IF \E nm \in ImportNames(m) : ResolveFunc(nm) = {}
    THEN "UnresolvedImport"
    ELSE IF m.start THEN "StartFunction"
    ELSE IF m.memory_export # "memory" THEN "MissingMemoryExport"
    ELSE IF ~m.main_export THEN "MissingEntryPoint"
    ELSE "none"

\* Bytes32::default()
Bytes32Default == ZERO_HASH

\* Faulty variant: the post state starts as the pre state.
RuntimeNew_PostFromPre(pre, data) ==
    [pre_state |-> pre, block_data |-> data, post_state |-> pre]

\* Runtime::new(pre_state, block_data), without its memory
RuntimeNew(pre, data) ==
    [pre_state |-> pre, block_data |-> data, post_state |-> Bytes32Default]

\* Faulty variant: returns the default instead of the saved post state.
GetPostState_Default(rt_post_state) == Bytes32Default

\* Runtime::get_post_state
GetPostState(rt_post_state) == rt_post_state

\* Runtime::new: memory is Some(MemoryInstance::alloc(Pages(1), Some(Pages(1))))
RuntimeNewMemory ==
    [owner |-> "runtime_new", bytes |-> [i \in 1..PageSize |-> 0]]

\* instance.export_by_name("memory").as_memory(): the module's own memory
ExportedMemory(m) ==
    [owner |-> "module",
     bytes |-> [i \in 1..(m.pages * PageSize) |->
                   IF i <= Len(m.data) THEN m.data[i] ELSE 0]]

\* Faulty variant: the Runtime keeps the memory Runtime::new allocated.
BindMemory_Forgotten(runtime_memory, internal_mem) == runtime_memory

\* runtime.memory = Some(internal_mem)
BindMemory(runtime_memory, internal_mem) == internal_mem

\* MemoryInstance::set / get_into bounds check
InRange(mem, ptr, n) == ptr + n <= Len(mem)

\* Faulty variant: writes one byte further on.
MemSet_OffByOne(mem, ptr, value) ==
    [i \in 1..Len(mem) |->
        IF i > ptr + 1 /\ i <= ptr + 1 + Len(value)
        THEN value[i - ptr - 1] ELSE mem[i]]

\* MemoryInstance::set(ptr, value), in range
MemSet(mem, ptr, value) ==
    [i \in 1..Len(mem) |->
        IF i > ptr /\ i <= ptr + Len(value) THEN value[i - ptr] ELSE mem[i]]

\* MemoryInstance::get_into(ptr, buf) with a buffer of n bytes, in range
MemGet(mem, ptr, n) == [i \in 1..n |-> mem[ptr + i]]

\* &self.block_data.data[offset..length]: bounds check and value
SliceOk(data, offset, length) == offset <= length /\ length <= Len(data)
Slice(data, offset, length) == SubSeq(data, offset + 1, length)

\* ----------------------------------------------------------------- Init
\* Everything but exec_env_states, at the first call.
InitOthers ==
    /\ slot = 0
    /\ parent_block = ShardBlockHeader
    /\ host = "running"
    /\ pc = "idle"
    /\ env = 0
    /\ memory = <<>>
    /\ pre_state = ZERO_HASH
    /\ block_data = <<>>
    /\ post_state = ZERO_HASH
    /\ steps = 0
    /\ entry = ShardState
    /\ outcome = Outcome("none", "-")
    /\ result = NoResult
    /\ committed = [e \in Envs |-> <<>>]
    /\ referenced = {}
    /\ last_call = NoCall
    /\ instance = NoInstance
    /\ memory_binding = NoBinding
    /\ run = NoRun

InitState ==
    /\ exec_env_states \in {[i \in 1..n |-> Bytes32Default] : n \in InitLens}
    /\ InitOthers

\* The history of guest steps is not recorded.
Init == InitState /\ record_calls = FALSE

\* The same program, with each guest step recorded in last_call.
InitCalls == InitState /\ record_calls = TRUE

\* -------------------------------------------------------------- actions
\* A panic: the host stops.
Panic(cause) ==
    /\ host' = "panicked"
    /\ outcome' = Outcome("panic", cause)

\* A panic while the guest runs unwinds through execute_code, which drops
\* its locals (the Runtime and the module instance with its memory); the
\* caller's ShardState is left as it was at the panic.
PanicInMain(cause, call) ==
    /\ Panic(cause)
    /\ last_call' = call
    /\ pc' = "idle"
    /\ memory' = <<>>
    /\ pre_state' = ZERO_HASH
    /\ block_data' = <<>>
    /\ post_state' = ZERO_HASH
    /\ steps' = 0
    /\ instance' = NoInstance
    /\ memory_binding' = NoBinding
    /\ run' = NoRun
    /\ UNCHANGED <<state_vars, env, entry, result, committed, referenced,
                   record_calls>>

\* A host call or guest step that returns to the guest.
Returns(call) ==
    /\ steps' = steps + 1
    /\ last_call' = call
    /\ run' = IF ~record_calls THEN run
              ELSE IF call[1] = "savepoststate"
              THEN [saves |-> Append(run.saves,
                                     MemGet(memory, call[2], DigestLen)),
                    round_trip |-> last_call = <<"loadprestate", call[2]>>]
              ELSE [run EXCEPT !.round_trip = FALSE]
    /\ UNCHANGED <<state_vars, host, pc, env, pre_state, block_data, entry,
                   outcome, result, committed, referenced, record_calls,
                   instance, memory_binding>>

\* Faulty variant: an empty slot advances the slot number.
ProcessNoBlock_AdvancesSlot ==
    /\ host = "running" /\ pc = "idle"
    /\ entry' = ShardState
    /\ outcome' = Outcome("noop", "-")
    /\ slot' = slot + 1
    /\ UNCHANGED <<exec_env_states, parent_block, host, pc, env, runtime_vars,
                   steps, result, committed, referenced, call_vars,
                   instance, memory_binding, run>>

\* process_shard_block(state, beacon_state, None)
ProcessNoBlock ==
    /\ host = "running" /\ pc = "idle"
    /\ entry' = ShardState
    /\ outcome' = Outcome("noop", "-")
    /\ UNCHANGED <<state_vars, host, pc, env, runtime_vars, steps, result,
                   committed, referenced, call_vars, instance,
                   memory_binding, run>>

\* process_shard_block(state, beacon_state, Some(block)) up to the point
\* where the guest's main starts to run: block.env = e and
\* beacon_state.execution_scripts has n entries. The script at index e
\* (decoding to module m) and block.data (d) are inputs of the same call,
\* drawn where the code first reads them; scripts is the set of modules the
\* script can decode to.
ProcessBlockFrom(e, n, scripts) ==
    /\ host = "running" /\ pc = "idle"
    /\ Len(exec_env_states) + e <= MaxLen
    /\ entry' = ShardState
    /\ env' = e
    /\ run' = NoRun
    /\ UNCHANGED <<slot, parent_block, committed, result, call_vars>>
    /\ IF e >= n
       THEN \* beacon_state.execution_scripts[env] is out of bounds
            /\ Panic("UnknownEnvironment")
            /\ UNCHANGED <<exec_env_states, pc, runtime_vars, steps,
                           referenced, instance, memory_binding>>
       ELSE LET filled == FillHoles(exec_env_states, e) IN
            /\ exec_env_states' = filled
            /\ referenced' = referenced \cup {e}
            /\ IF e >= Len(filled)
               THEN \* state.exec_env_states[env] is out of bounds
                    /\ Panic("StateIndex")
                    /\ UNCHANGED <<pc, runtime_vars, steps, instance,
                                   memory_binding>>
               ELSE \E m \in scripts :
                    IF LoadFault(m) # "none"
                    THEN /\ Panic(LoadFault(m))
                         /\ UNCHANGED <<pc, runtime_vars, steps, instance,
                                        memory_binding>>
                    ELSE \E d \in BlockBodies :
                         LET rt == RuntimeNew(PreStateOf(filled, e), d)
                             bound == BindMemory(RuntimeNewMemory,
                                                 ExportedMemory(m)) IN
                         /\ pc' = "main"
                         /\ host' = host
                         /\ outcome' = Outcome("pending", "-")
                         /\ memory' = bound.bytes
                         /\ memory_binding' =
                                [before |-> RuntimeNewMemory.owner,
                                 after |-> bound.owner]
                         /\ pre_state' = rt.pre_state
                         /\ block_data' = rt.block_data
                         /\ post_state' = rt.post_state
                         /\ steps' = 0
                         /\ instance' = [funcs |-> LinkedFuncs(m),
                                         pages |-> m.pages]

ProcessSomeBlock(e, n) == ProcessBlockFrom(e, n, Modules)

\* The guest can invoke the host functions its imports resolved to.
Linked(index) == index \in instance.funcs

InMain == host = "running" /\ pc = "main" /\ steps < MaxGuestSteps

\* eth2_loadPreState(ptr)
LoadPreState(ptr) ==
    LET call == Call("loadprestate", <<ptr>>) IN
    /\ InMain
    /\ Linked(LOADPRESTATE_FUNC_INDEX)
    /\ IF InRange(memory, ptr, DigestLen)
       THEN /\ memory' = MemSet(memory, ptr, pre_state)
            /\ UNCHANGED post_state
            /\ Returns(call)
       ELSE PanicInMain("MemoryAccess", call)

\* eth2_savePostState(ptr)
SavePostState(ptr) ==
    LET call == Call("savepoststate", <<ptr>>) IN
    /\ InMain
    /\ Linked(SAVEPOSTSTATE_FUNC_INDEX)
    /\ IF InRange(memory, ptr, DigestLen)
       THEN /\ post_state' = MemGet(memory, ptr, DigestLen)
            /\ UNCHANGED memory
            /\ Returns(call)
       ELSE PanicInMain("MemoryAccess", call)

\* eth2_blockDataSize(): returns block_data.data.len() to the guest
BlockDataSize ==
    /\ InMain
    /\ Linked(BLOCKDATASIZE_FUNC_INDEX)
    /\ UNCHANGED <<memory, post_state>>
    /\ Returns(Call("blockdatasize", <<Len(block_data)>>))

\* eth2_blockDataCopy(ptr, offset, length)
BlockDataCopy(ptr, offset, length) ==
    LET call == Call("blockdatacopy", <<ptr, offset, length>>) IN
    /\ InMain
    /\ Linked(BLOCKDATACOPY_FUNC_INDEX)
    /\ IF ~SliceOk(block_data, offset, length)
       THEN PanicInMain("SliceIndex", call)
       ELSE IF ~InRange(memory, ptr, Len(Slice(block_data, offset, length)))
       THEN PanicInMain("MemoryAccess", call)
       ELSE /\ memory' = MemSet(memory, ptr, Slice(block_data, offset, length))
            /\ UNCHANGED post_state
            /\ Returns(call)

\* eth2_pushNewDeposit(ptr): unimplemented!()
PushNewDeposit(ptr) ==
    /\ InMain
    /\ Linked(PUSHNEWDEPOSIT_FUNC_INDEX)
    /\ PanicInMain("Unimplemented", Call("pushnewdeposit", <<ptr>>))

\* The guest stores a byte into its own linear memory.
GuestStore(addr, b) ==
    /\ InMain
    /\ addr < Len(memory)
    /\ memory' = MemSet(memory, addr, <<b>>)
    /\ UNCHANGED post_state
    /\ Returns(Call("store", <<addr, b>>))

\* The guest traps: invoke_export returns Err and .expect panics.
GuestTrap ==
    /\ host = "running" /\ pc = "main"
    /\ PanicInMain("GuestTrap", Call("trap", <<>>))

\* main returns: execute_code returns (post_state, vec![Deposit {}]) and
\* process_shard_block stores the post state.
MainReturns ==
    /\ host = "running" /\ pc = "main"
    /\ result' = <<GetPostState(post_state), <<Deposit>>>>
    /\ exec_env_states' =
           StorePostState(exec_env_states, env, GetPostState(post_state))
    /\ committed' = [committed EXCEPT ![env] = GetPostState(post_state)]
    /\ outcome' = Outcome("ok", "-")
    /\ pc' = "idle"
    /\ memory' = <<>>
    /\ pre_state' = ZERO_HASH
    /\ block_data' = <<>>
    /\ post_state' = ZERO_HASH
    /\ steps' = 0
    /\ last_call' = NoCall
    /\ instance' = NoInstance
    /\ memory_binding' = NoBinding
    /\ UNCHANGED <<slot, parent_block, host, env, entry, referenced,
                   record_calls, run>>

Next ==
    \/ ProcessNoBlock
    \/ \E e \in Envs, n \in 0..(MaxEnv + 1) : ProcessSomeBlock(e, n)
    \/ \E p \in Pointers : LoadPreState(p)
    \/ \E p \in Pointers : SavePostState(p)
    \/ BlockDataSize
    \/ \E p \in Pointers, o \in Sizes, l \in Sizes :
          BlockDataCopy(p, o, l)
    \/ \E p \in Pointers : PushNewDeposit(p)
    \/ \E a \in Pointers, b \in Byte : GuestStore(a, b)
    \/ GuestTrap
    \/ MainReturns

Spec == Init /\ [][Next]_vars

SpecCalls == InitCalls /\ [][Next]_vars

\* The same program when a script may also be a module whose memory has two
\* pages, and the guest's pointers reach into the second page.
NextPages ==
    \/ ProcessNoBlock
    \/ \E e \in Envs, n \in 0..(MaxEnv + 1) :
          ProcessBlockFrom(e, n, ModulesAnySize)
    \/ \E p \in PointersAnySize : LoadPreState(p)
    \/ \E p \in PointersAnySize : SavePostState(p)
    \/ BlockDataSize
    \/ \E p \in PointersAnySize, o \in Sizes, l \in Sizes :
          BlockDataCopy(p, o, l)
    \/ \E p \in PointersAnySize : PushNewDeposit(p)
    \/ \E a \in PointersAnySize, b \in Byte : GuestStore(a, b)
    \/ GuestTrap
    \/ MainReturns

SpecPages == Init /\ [][NextPages]_vars

\* One call of process_shard_block with a block, on any ShardState the shard
\* can have by then, with the guest's steps recorded; the script may be a
\* module with a data segment.
InitRun ==
    /\ exec_env_states \in UNION {[1..n -> Digest] : n \in InitLens}
    /\ InitOthers
    /\ record_calls = TRUE

NextRun ==
    \/ /\ outcome.kind = "none"
       /\ \E e \in Envs, n \in 0..(MaxEnv + 1) :
             ProcessBlockFrom(e, n, ModulesWithData)
    \/ \E p \in Pointers : LoadPreState(p)
    \/ \E p \in Pointers : SavePostState(p)
    \/ BlockDataSize
    \/ \E p \in Pointers, o \in Sizes, l \in Sizes :
          BlockDataCopy(p, o, l)
    \/ \E p \in Pointers : PushNewDeposit(p)
    \/ \E a \in Pointers, b \in Byte : GuestStore(a, b)
    \/ GuestTrap
    \/ MainReturns

SpecRun == InitRun /\ [][NextRun]_vars

\* ------------------------------------------------------------ properties
Max(a, b) == IF a >= b THEN a ELSE b

\* The post state committed by the last successful run of environment e,
\* the zero digest if there was none.
HasRun(e) == e \in Envs /\ committed[e] # <<>>
LastCommitted(e) == IF HasRun(e) THEN committed[e] ELSE ZERO_HASH

\* C1: a call with block = None leaves the ShardState (exec_env_states,
\* slot, parent_block) exactly as it was on entry, however often repeated.
C1_NoBlockIsNoOp == outcome.kind = "noop" => ShardState = entry

C1_Witness ==
    /\ outcome.kind = "noop"
    /\ Len(exec_env_states) >= 2
    /\ \E i \in 1..Len(exec_env_states) : exec_env_states[i] # ZERO_HASH

\* C2: after a successful call for environment env, exec_env_states[env] is
\* the post state the run returned, every other entry that existed on entry
\* is unchanged, and so are slot and parent_block.
C2_SuccessStoresPostState ==
    outcome.kind = "ok" =>
        /\ env < Len(exec_env_states)
        /\ exec_env_states[env + 1] = result[1]
        /\ \A i \in 1..Len(entry.exec_env_states) :
              i # env + 1 => exec_env_states[i] = entry.exec_env_states[i]
        /\ slot = entry.slot
        /\ parent_block = entry.parent_block

C2_Witness ==
    /\ outcome.kind = "ok"
    /\ result[1] # ZERO_HASH
    /\ env + 1 <= Len(entry.exec_env_states)
    /\ entry.exec_env_states[env + 1] # result[1]
    /\ \E i \in 1..Len(entry.exec_env_states) :
          i # env + 1 /\ entry.exec_env_states[i] # ZERO_HASH

\* C3: the pre state handed to a run for environment env is the post state
\* of the last successful run for env, or the zero digest if there was none;
\* runs for other environments do not change it.
C3_PreStateIsLastCommitted ==
    (host = "running" /\ pc = "main") => pre_state = LastCommitted(env)

C3_Witness ==
    /\ host = "running" /\ pc = "main"
    /\ pre_state # ZERO_HASH
    /\ \E e \in Envs : e # env /\ HasRun(e) /\ committed[e] # pre_state

\* C4: a successful call for environment env on a state of length L leaves
\* length max(L, env + 1), and the slots created below env are zero.
C4_LengthIsMaxOfOldAndEnvPlusOne ==
    outcome.kind = "ok" =>
        /\ Len(exec_env_states) = Max(Len(entry.exec_env_states), env + 1)
        /\ \A i \in (Len(entry.exec_env_states) + 1)..env :
              exec_env_states[i] = ZERO_HASH

\* C5: exec_env_states is always longer than every environment identifier
\* of a processed block, and every entry no successful run has written is
\* the zero digest.
C5_LengthCoversReferencedEnvs ==
    /\ \A e \in referenced : e < Len(exec_env_states)
    /\ \A i \in 1..Len(exec_env_states) :
          ~HasRun(i - 1) => exec_env_states[i] = ZERO_HASH

\* C6: a block whose env is not below the number of execution scripts is
\* reported to the caller as an UnknownEnvironment failure value, the host
\* keeps running and the ShardState is as on entry.
C6_UnknownEnvIsReportedFailure ==
    outcome.cause = "UnknownEnvironment" =>
        /\ outcome.kind = "error"
        /\ host = "running"
        /\ ShardState = entry

\* C7: when loading, linking, binding memory or running the module fails,
\* the ShardState is exactly as on entry to the call.
RunFailures ==
    {"ModuleDecode", "UnresolvedImport", "StartFunction",
     "MissingMemoryExport", "MissingEntryPoint", "GuestTrap", "MemoryAccess",
     "SliceIndex", "Unimplemented"}

C7_FailedRunLeavesStateUnchanged ==
    outcome.cause \in RunFailures => ShardState = entry

\* C8: no failure of a transition aborts the host: every failure is a
\* failure value and a further call can be applied.
C8_FailuresNeverAbortHost == host = "running" /\ outcome.kind # "panic"

\* C9: block_data_copy(p, o, l) with o + l <= len(block_data) and
\* p + l <= memory size returns to the guest having written
\* block_data[o .. o+l) at [p, p+l) and nothing else.
C9_CopyWritesRequestedRange ==
    [][\A p \in Pointers, o \in Sizes, l \in Sizes :
          ( /\ o + l <= Len(block_data)
            /\ p + l <= Len(memory)
            /\ BlockDataCopy(p, o, l) )
          => /\ host' = "running" /\ pc' = "main"
             /\ memory' = MemSet(memory, p, SubSeq(block_data, o + 1, o + l))
      ]_vars

\* C10: block_data_copy(p, o, l) with o + l > len(block_data) fails: it does
\* not return to the guest as a completed call, and it writes no byte of
\* guest memory on the way.
C10_CopyPastBlockDataFails ==
    [][\A p \in Pointers, o \in Sizes, l \in Sizes :
          ( /\ o + l > Len(block_data)
            /\ BlockDataCopy(p, o, l) )
          => /\ ~(host' = "running" /\ pc' = "main")
             /\ memory' \in {memory, <<>>}
      ]_vars

\* C14: the deposit list a run returns holds one Deposit per
\* eth2_pushNewDeposit call of the guest, in call order, and each such call
\* returns to the guest. (No eth2_pushNewDeposit call returns: a run that
\* returns has made none, and its list is to be empty.)
C14_DepositsAreThePushedOnes ==
    /\ outcome.kind = "ok" => result[2] = <<>>
    /\ outcome.cause # "Unimplemented"

\* C16: from exec_env_states = [zero], a block with env = 1 whose run
\* returns leaves exec_env_states of length exactly 2, with entry 0 the zero
\* digest and entry 1 the post state the run saved.
C16_EndToEnd ==
    (outcome.kind = "ok" /\ entry.exec_env_states = <<ZERO_HASH>> /\ env = 1)
    => /\ Len(exec_env_states) = 2
       /\ exec_env_states[1] = ZERO_HASH
       /\ exec_env_states[2] = result[1]

C16_Witness ==
    /\ outcome.kind = "ok"
    /\ entry.exec_env_states = <<ZERO_HASH>>
    /\ env = 1
    /\ result[1] # ZERO_HASH

\* C17: eth2_loadPreState(p) and eth2_savePostState(p) with p + 32 beyond
\* the guest memory fail with a memory access violation reported to the
\* caller, having changed no byte of guest memory and not the post state.
C17_OutOfRangeAccessFails ==
    [][\A p \in Pointers :
          ( /\ ~InRange(memory, p, DigestLen)
            /\ (LoadPreState(p) \/ SavePostState(p)) )
          => /\ outcome'.cause = "MemoryAccess"
             /\ outcome'.kind # "panic" /\ host' = "running"
             /\ memory' \in {memory, <<>>}
             /\ post_state' \in {post_state, ZERO_HASH}
      ]_vars

\* C18: a module that imports a name other than the five host operations
\* is rejected at link time and no Runtime is created for it; every host
\* function index a running guest can invoke is one of the five known ones.
C18_OnlyKnownHostFunctions ==
    /\ pc = "main" => (instance.funcs # {} /\ instance.funcs \subseteq KnownIndices)
    /\ outcome.cause = "UnresolvedImport" =>
           (host = "panicked" /\ pc = "idle" /\ instance = NoInstance)

C18_Witness ==
    /\ outcome.cause = "UnresolvedImport"
    /\ \E e \in Envs : HasRun(e)

\* C19: only a module whose memory is one page gets to run: during main
\* the guest memory the host calls use is exactly one page.
C19_GuestMemoryIsOnePage ==
    pc = "main" => (instance.pages = 1 /\ Len(memory) = PageSize)

\* C20 (as claimed): the Runtime holds no memory before the module's
\* memory is bound, and during main its memory is the module's own.
C20_NoMemoryBeforeBinding ==
    pc = "main" =>
        (memory_binding.before = "none" /\ memory_binding.after = "module")

\* C20 (amended): the Runtime is created holding the one-page memory that
\* Runtime::new allocates; before main is invoked that is replaced by the
\* module's exported memory, which every host call during main then uses.
C20_ModuleMemoryBoundBeforeMain ==
    pc = "main" =>
        /\ memory_binding.before = "runtime_new"
        /\ memory_binding.after = "module"
        /\ Len(memory) = instance.pages * PageSize

C20_Witness ==
    /\ pc = "main"
    /\ memory_binding.after = "module"
    /\ steps > 0
    /\ \E i \in 1..Len(memory) : memory[i] # 0

\* The pre state of the last call's run: entry env of the state on entry,
\* once the holes were filled.
EntryPreState == PreStateOf(FillHoles(entry.exec_env_states, env), env)

\* C11: when the guest calls eth2_loadPreState(p) and then at once
\* eth2_savePostState(p), for an in-range p, the session's post state is the
\* pre state; a run that ends there returns and stores the pre state.
C11_LoadThenSaveIsIdentity ==
    run.round_trip =>
        /\ pc = "main" => post_state = pre_state
        /\ outcome.kind = "ok" =>
              (result[1] = EntryPreState
               /\ exec_env_states[env + 1] = EntryPreState)

C11_Witness ==
    /\ run.round_trip
    /\ outcome.kind = "ok"
    /\ result[1] # ZERO_HASH

\* C12: after one or more eth2_savePostState calls, the session's post
\* state, and the post state the run returns, is what guest memory held at
\* src_ptr at the last call that returned; earlier calls leave no trace.
C12_LastSaveWins ==
    run.saves # <<>> =>
        /\ pc = "main" => post_state = run.saves[Len(run.saves)]
        /\ outcome.kind = "ok" => result[1] = run.saves[Len(run.saves)]

C12_Witness ==
    /\ outcome.kind = "ok"
    /\ Len(run.saves) >= 2
    /\ run.saves[1] # run.saves[Len(run.saves)]
    /\ run.saves[Len(run.saves)] # ZERO_HASH

\* C13: when main returns without any eth2_savePostState call, the run
\* returns the zero digest whatever the pre state, and the zero digest is
\* stored in exec_env_states[env].
C13_NoSaveYieldsZero ==
    (outcome.kind = "ok" /\ run.saves = <<>>) =>
        /\ result[1] = ZERO_HASH
        /\ exec_env_states[env + 1] = ZERO_HASH

C13_Witness ==
    /\ outcome.kind = "ok"
    /\ run.saves = <<>>
    /\ record_calls
    /\ env < Len(entry.exec_env_states)
    /\ entry.exec_env_states[env + 1] # ZERO_HASH
    /\ exec_env_states[env + 1] = ZERO_HASH

TypeOK ==
    /\ exec_env_states \in Seq(Digest)
    /\ host \in {"running", "panicked"}
    /\ pc \in {"idle", "main"}
====
